---------------------------- MODULE Spec2Model ----------------------------
(***************************************************************************)
(* A model of argument-parser-extended (src/index.js): the schema          *)
(* normaliser (the constructor), the tokenizer (splitArgs), the value      *)
(* coercion engine (handleType, handleValue) and the flag binder           *)
(* (handleFlag, parse), with one parser instance whose this.values lives   *)
(* as long as the instance does.                                           *)
(*                                                                         *)
(* A JavaScript string is a sequence of one-character strings, so that     *)
(* the regular expressions of the source are computed character by         *)
(* character.  A JavaScript value is a record tagged with its typeof; a     *)
(* number n is kept in tenths (n = 15 is 1.5), which is exact for the      *)
(* literals the model feeds (at most one fractional digit).  Flags of      *)
(* type 'file' read the file system and are left out.                      *)
(***************************************************************************)
EXTENDS Integers, Sequences, FiniteSets, TLC

(***************************************************************************)
(* JavaScript values                                                       *)
(***************************************************************************)
Undef == [t |-> "undefined"]
Str(s) == [t |-> "string", s |-> s]
Num(n) == [t |-> "number", n |-> n]
Whole(i) == Num(10 * i)
Bool(b) == [t |-> "boolean", b |-> b]
Arr(a) == [t |-> "array", a |-> a]

\* ToBoolean: what `if (v)`, `!v` and `a && b` test
Truthy(v) ==
    CASE v.t = "undefined" -> FALSE
      [] v.t = "boolean"   -> v.b
      [] v.t = "number"    -> v.n # 0
      [] v.t = "string"    -> v.s # <<>>
      [] OTHER             -> TRUE

(***************************************************************************)
(* Characters                                                              *)
(***************************************************************************)
LowerSeq == <<"a","b","c","d","e","f","g","h","i","j","k","l","m",
              "n","o","p","q","r","s","t","u","v","w","x","y","z">>
UpperSeq == <<"A","B","C","D","E","F","G","H","I","J","K","L","M",
              "N","O","P","Q","R","S","T","U","V","W","X","Y","Z">>
DigitSeq == <<"0","1","2","3","4","5","6","7","8","9">>
Range(f) == {f[i] : i \in DOMAIN f}
Lower == Range(LowerSeq)
Upper == Range(UpperSeq)
Digits == Range(DigitSeq)
Quotes == {"\"", "'"}
\* every character the model writes into a line, a name or a value
Alphabet == Lower \cup Upper \cup Digits
            \cup Quotes \cup {"_", "-", " ", ",", "=", ".", "+", ":"}
\* \w
WordChars == Lower \cup Upper \cup Digits \cup {"_"}
\* [\w_-]
NameChars == WordChars \cup {"-"}
\* [^"',=\s]
ValueHead == Alphabet \ (Quotes \cup {",", "=", " "})
\* [^'',\s]
ValueTail == Alphabet \ {"'", ",", " "}

IndexOf(seq, c) == CHOOSE i \in DOMAIN seq : seq[i] = c
ToUpper(c) == IF c \in Lower THEN UpperSeq[IndexOf(LowerSeq, c)] ELSE c
ToLower(c) == IF c \in Upper THEN LowerSeq[IndexOf(UpperSeq, c)] ELSE c
DigitVal(c) == IndexOf(DigitSeq, c) - 1

\* the end (exclusive) of the longest run of characters of C that starts at i
RunEnd(s, i, C) ==
    CHOOSE j \in i..(Len(s) + 1) :
        /\ \A k \in i..(j - 1) : s[k] \in C
        /\ (j = Len(s) + 1 \/ s[j] \notin C)

Sub(s, i, j) == SubSeq(s, i, j - 1)

(***************************************************************************)
(* trimQuotes: str.replace(/^(['"])(.*?)\1$/, '$2')                        *)
(***************************************************************************)
\* trimQuotes with the bug of stripping single quotes only: /^'(.*?)'$/
trimQuotesSingleOnly(s) ==
    IF Len(s) >= 2 /\ s[1] = "'" /\ s[Len(s)] = "'"
    THEN Sub(s, 2, Len(s))
    ELSE s

trimQuotes(s) ==
    IF Len(s) >= 2 /\ s[1] \in Quotes /\ s[Len(s)] = s[1]
    THEN Sub(s, 2, Len(s))
    ELSE s

(***************************************************************************)
(* splitArgs: cmdLineRegex applied globally, left to right                 *)
(***************************************************************************)
Token(isFlag, isShort, value) ==
    [isFlag |-> isFlag, isShort |-> isShort, value |-> value]

\* (--?) at i followed by [\w_]: the number of dashes matched, 0 for no match
DashCount(s, i) ==
    IF i > Len(s) \/ s[i] # "-" THEN 0
    ELSE IF i + 2 <= Len(s) /\ s[i + 1] = "-" /\ s[i + 2] \in WordChars THEN 2
    ELSE IF i + 1 <= Len(s) /\ s[i + 1] \in WordChars THEN 1
    ELSE 0

\* ["'].*?["'] at i: the end (exclusive) of the match, 0 for no match
QuotedEnd(s, i) ==
    IF i <= Len(s) /\ s[i] \in Quotes /\ \E j \in (i + 1)..Len(s) : s[j] \in Quotes
    THEN 1 + CHOOSE j \in (i + 1)..Len(s) :
                 /\ s[j] \in Quotes
                 /\ \A k \in (i + 1)..(j - 1) : s[k] \notin Quotes
    ELSE 0

\* (?:["'].*?["']|C+) at i: the end (exclusive) of the match, 0 for no match
ItemEnd(s, i, C) ==
    IF QuotedEnd(s, i) # 0 THEN QuotedEnd(s, i)
    ELSE IF RunEnd(s, i, C) > i THEN RunEnd(s, i, C)
    ELSE 0

\* (?:,(?:["'].*?["']|[^'',\s]+))* from e on: the end (exclusive) of the match;
\* n is where the sibling after the comma at e ends, 0 when there is none
RECURSIVE SiblingsEnd(_, _)
AfterSibling(s, e, n) == IF n = 0 THEN e ELSE SiblingsEnd(s, n)
SiblingsEnd(s, e) ==
    IF e <= Len(s) /\ s[e] = ","
    THEN AfterSibling(s, e, ItemEnd(s, e + 1, ValueTail))
    ELSE e

\* the third match group at i: the end (exclusive) of the match, 0 for no
\* match; h is where its first item ends
AfterHead(s, h) == IF h = 0 THEN 0 ELSE SiblingsEnd(s, h)
ValueEnd(s, i) == AfterHead(s, ItemEnd(s, i, ValueHead))

\* the name after a single dash kept whole, as one long-flag token
ShortTokensAsOne(name) == <<Token(TRUE, FALSE, name)>>

\* shortFlags.split('').forEach(...): one short-flag token per character
ShortTokens(name) == [k \in 1..Len(name) |-> Token(TRUE, TRUE, <<name[k]>>)]

\* the replace callback applied to every match from position i on; d is the
\* number of dashes matched at i, and e the end of the name or of the value
RECURSIVE Scan(_, _)
FlagMatch(s, i, d, e) ==
    (IF d = 1 THEN ShortTokens(Sub(s, i + d, e))
     ELSE <<Token(TRUE, FALSE, Sub(s, i + d, e))>>)
    \o Scan(s, e)
ValueMatch(s, i, e) ==
    IF e = 0 THEN Scan(s, i + 1)
    ELSE <<Token(FALSE, FALSE, Sub(s, i, e))>> \o Scan(s, e)
Dashes(s, i, d) ==
    IF d # 0 THEN FlagMatch(s, i, d, RunEnd(s, i + d, NameChars))
    ELSE ValueMatch(s, i, ValueEnd(s, i))
Scan(s, i) ==
    IF i > Len(s) THEN <<>> ELSE Dashes(s, i, DashCount(s, i))

splitArgs(line) == Scan(line, 1)

(***************************************************************************)
(* lodash: _.camelCase and _.kebabCase, both built on the word splitter    *)
(*   [A-Z]+(?=[A-Z][a-z]+) | [A-Z]?[a-z]+ | [A-Z]+ | [0-9]+                *)
(***************************************************************************)
\* the end (exclusive) of the word that starts at i, 0 when none starts there
WordEnd(s, i) ==
    LET u == RunEnd(s, i, Upper)
    IN  IF s[i] \in Upper THEN
            IF u <= Len(s) /\ s[u] \in Lower
            THEN (IF u - i >= 2 THEN u - 1 ELSE RunEnd(s, u, Lower))
            ELSE u
        ELSE IF s[i] \in Lower THEN RunEnd(s, i, Lower)
        ELSE IF s[i] \in Digits THEN RunEnd(s, i, Digits)
        ELSE 0

RECURSIVE Words(_, _)
WordsAt(s, i, e) ==
    IF e = 0 THEN Words(s, i + 1) ELSE <<Sub(s, i, e)>> \o Words(s, e)
Words(s, i) == IF i > Len(s) THEN <<>> ELSE WordsAt(s, i, WordEnd(s, i))

LowerCase(w) == [k \in 1..Len(w) |-> ToLower(w[k])]
Capitalize(w) == [k \in 1..Len(w) |-> IF k = 1 THEN ToUpper(w[k]) ELSE w[k]]

RECURSIVE Join(_, _)
Join(ws, sep) ==
    IF ws = <<>> THEN <<>>
    ELSE IF Len(ws) = 1 THEN ws[1]
    ELSE ws[1] \o sep \o Join(Tail(ws), sep)

\* the words ws in camel case, in kebab case
Camel(ws) ==
    Join([k \in 1..Len(ws) |->
             IF k = 1 THEN LowerCase(ws[k]) ELSE Capitalize(LowerCase(ws[k]))],
         <<>>)
Kebab(ws) == Join([k \in 1..Len(ws) |-> LowerCase(ws[k])], <<"-">>)

camelCase(s) == Camel(Words(s, 1))
kebabCase(s) == Kebab(Words(s, 1))

(***************************************************************************)
(* parseInt, parseFloat, String.prototype.split                            *)
(***************************************************************************)
NaN == [nan |-> TRUE, n |-> 0]
Finite(n) == [nan |-> FALSE, n |-> n]

\* the value of the decimal digits d
RECURSIVE DigitsVal(_)
DigitsVal(d) ==
    IF d = <<>> THEN 0
    ELSE 10 * DigitsVal(SubSeq(d, 1, Len(d) - 1)) + DigitVal(d[Len(d)])

\* where the digits start: after leading spaces and one optional sign; b is
\* where the spaces end
AfterSpaces(s, b) == IF b <= Len(s) /\ s[b] \in {"+", "-"} THEN b + 1 ELSE b
SignEnd(s) == AfterSpaces(s, RunEnd(s, 1, {" "}))
Signed(s, b, m) == IF b > 1 /\ s[b - 1] = "-" THEN -m ELSE m

\* parseInt(s), radix 10: the longest prefix of digits, NaN when there is none;
\* the digits run from b to e
IntDigits(s, b, e) ==
    IF e = b THEN NaN ELSE Finite(Signed(s, b, 10 * DigitsVal(Sub(s, b, e))))
IntFrom(s, b) == IntDigits(s, b, RunEnd(s, b, Digits))
ParseInt(s) == IntFrom(s, SignEnd(s))

\* parseFloat(s): digits, then an optional point and digits (no exponent, no
\* Infinity: the lines of the model hold neither); the first fractional digit
\* is kept.  The digits run from b to e and the fraction ends at f
FloatDigits(s, b, e, f) ==
    IF e = b /\ f <= e + 1 THEN NaN
    ELSE Finite(Signed(s, b, 10 * DigitsVal(Sub(s, b, e))
                             + (IF f > e + 1 THEN DigitVal(s[e + 1]) ELSE 0)))
FloatWhole(s, b, e) ==
    IF e <= Len(s) /\ s[e] = "."
    THEN FloatDigits(s, b, e, RunEnd(s, e + 1, Digits))
    ELSE FloatDigits(s, b, e, e)
FloatFrom(s, b) == FloatWhole(s, b, RunEnd(s, b, Digits))
ParseFloat(s) == FloatFrom(s, SignEnd(s))

\* s.split(',')
RECURSIVE Split(_)
Split(s) ==
    IF \E k \in 1..Len(s) : s[k] = ","
    THEN LET c == CHOOSE k \in 1..Len(s) : s[k] = "," /\ \A j \in 1..(k - 1) : s[j] # ","
         IN  <<Sub(s, 1, c)>> \o Split(Sub(s, c + 1, Len(s) + 1))
    ELSE <<s>>

(***************************************************************************)
(* Outcomes of a call that may throw                                       *)
(***************************************************************************)
Ok(v) == [ok |-> TRUE, v |-> v, err |-> "", flag |-> <<>>]
Fail(err, flag) == [ok |-> FALSE, v |-> Undef, err |-> err, flag |-> flag]

(***************************************************************************)
(* Regular expressions and validators a schema may carry.  Both are the    *)
(* caller's objects; the model knows them by name.                         *)
(***************************************************************************)
RegExp(id) == [t |-> "regexp", id |-> id]
Function(id) == [t |-> "function", id |-> id]

\* regex.test(s) for /^[a-z]+$/ ("lower") and /^[0-9]+$/ ("digits")
RegexTest(re, s) ==
    CASE re.id = "lower"  -> s # <<>> /\ \A k \in 1..Len(s) : s[k] \in Lower
      [] re.id = "digits" -> s # <<>> /\ \A k \in 1..Len(s) : s[k] \in Digits

\* entry.validator(value): "even" throws unless val % 2 === 0 and returns
\* nothing, "double" returns val * 2, "zero" returns 0, "reject" throws
CallValidator(fn, value) ==
    CASE fn.id = "even"   -> [threw |-> value.n % 20 # 0, ret |-> Undef]
      [] fn.id = "double" -> [threw |-> FALSE, ret |-> Num(2 * value.n)]
      [] fn.id = "zero"   -> [threw |-> FALSE, ret |-> Num(0)]
      [] fn.id = "reject" -> [threw |-> TRUE, ret |-> Undef]

(***************************************************************************)
(* handleType                                                              *)
(***************************************************************************)
\* the first failure of a sequence of outcomes, else the array of the values
Collect(rs) ==
    IF \E k \in 1..Len(rs) : ~rs[k].ok
    THEN rs[CHOOSE k \in 1..Len(rs) : ~rs[k].ok /\ \A j \in 1..(k - 1) : rs[j].ok]
    ELSE Ok(Arr([k \in 1..Len(rs) |-> rs[k].v]))

\* value.toString().indexOf('.') > -1, for a string or a number
HasPoint(value) ==
    IF value.t = "string" THEN \E k \in 1..Len(value.s) : value.s[k] = "."
    ELSE value.n % 10 # 0

\* lines 165-182: the finiteness and range checks of a parsed number
CheckRange(entry, p, flag) ==
    IF p.nan THEN Fail("NotANumber", flag)
    ELSE IF Truthy(entry.min) /\ Truthy(entry.max)
            /\ (entry.max.n < p.n \/ entry.min.n > p.n)
         THEN Fail("OutOfRange", flag)
    ELSE IF Truthy(entry.min) /\ p.n < entry.min.n THEN Fail("OutOfRangeMin", flag)
    ELSE IF Truthy(entry.max) /\ p.n > entry.max.n THEN Fail("OutOfRangeMax", flag)
    ELSE Ok(Num(p.n))

\* parseInt(value) / parseFloat(value) of a string, a number or a boolean
ToInt(value) ==
    CASE value.t = "string" -> ParseInt(value.s)
      [] value.t = "number" -> Finite(value.n)
      [] OTHER              -> NaN
ToFloat(value) ==
    CASE value.t = "string" -> ParseFloat(value.s)
      [] value.t = "number" -> Finite(value.n)
      [] OTHER              -> NaN

\* value.split(',') of a string, the array itself otherwise (lines 189-191)
Strings(ps) == [k \in 1..Len(ps) |-> Str(ps[k])]
Parts(value) == IF value.t = "string" THEN Strings(Split(value.s)) ELSE value.a

RECURSIVE handleType(_, _, _)
\* one element of an array: trimQuotes(val), then the sub-type (lines 192-198)
handleElement(subEntry, val, flag) ==
    IF val.t # "string" THEN Fail("TypeError", flag)
    ELSE handleType(subEntry, Str(trimQuotes(val.s)), flag)
handleArray(subEntry, parts, flag) ==
    Collect([k \in 1..Len(parts) |-> handleElement(subEntry, parts[k], flag)])

handleType(entry, value, flag) ==
    CASE entry.type = "boolean" ->
            IF value.t = "boolean" /\ value.b = FALSE THEN Ok(Bool(FALSE))
            ELSE Ok(Bool(TRUE))
      [] entry.type = "integer" ->
            IF value.t = "undefined" THEN Fail("TypeError", flag)
            ELSE IF value.t \in {"string", "number"} /\ HasPoint(value)
                 THEN Fail("NotInteger", flag)
            ELSE CheckRange(entry, ToInt(value), flag)
      [] entry.type = "number" ->
            CheckRange(entry, ToFloat(value), flag)
      [] entry.type = "string" ->
            IF Truthy(entry.regex) /\ ~RegexTest(entry.regex, value.s)
            THEN Fail("RegexMismatch", flag)
            ELSE Ok(value)
      [] entry.type = "array" ->
            IF value.t \notin {"string", "array"} THEN Fail("TypeError", flag)
            ELSE handleArray([entry EXCEPT !.type = entry.subType],
                             Parts(value), flag)

(***************************************************************************)
(* JavaScript objects used as maps (this.config is a sequence of entries,  *)
(* in insertion order, each carrying its key as .name)                     *)
(***************************************************************************)
Get(obj, k) == IF k \in DOMAIN obj THEN obj[k] ELSE Undef
Put(obj, k, v) == [x \in DOMAIN obj \cup {k} |-> IF x = k THEN v ELSE obj[x]]
EmptyObject == [x \in {} |-> Undef]

\* the property key a value is converted to: obj[undefined] reads 'undefined'
PropertyKey(v) ==
    IF v.t = "undefined" THEN <<"u","n","d","e","f","i","n","e","d">> ELSE v.s

HasFlag(config, k) == \E i \in 1..Len(config) : config[i].name = k
Entry(config, k) == config[CHOOSE i \in 1..Len(config) : config[i].name = k]

APPEND == <<"_","_","a","p","p","e","n","d","_","_">>
HELP == <<"h","e","l","p">>

(***************************************************************************)
(* handleValue                                                             *)
(***************************************************************************)
\* entry.enum.indexOf(value) === -1
NotInEnum(enum, value) ==
    \A k \in 1..Len(enum.a) : enum.a[k].t # value.t \/ enum.a[k] # value

\* lines 247-256: the validator's verdict c on the coerced value
Verdict(value, c, flag) ==
    IF c.threw THEN Fail("ValidatorFailed", flag)
    ELSE IF c.ret.t # "undefined" THEN Ok(c.ret)
    ELSE Ok(value)
Validate(entry, value, flag) ==
    IF ~Truthy(entry.validator) THEN Ok(value)
    ELSE Verdict(value, CallValidator(entry.validator, value), flag)

\* lines 233-235 with the bug of letting a defined default win over the
\* value supplied
DefaultedAlways(entry, rawValue) ==
    IF entry.default.t # "undefined" THEN entry.default ELSE rawValue

\* lines 233-235: value || entry.default unless the default is undefined
Defaulted(entry, rawValue) ==
    IF ~Truthy(rawValue) /\ entry.default.t # "undefined"
    THEN entry.default ELSE rawValue

\* lines 237-239: a truthy string loses its surrounding quotes
Unwrapped(value) ==
    IF Truthy(value) /\ value.t = "string" THEN Str(trimQuotes(value.s)) ELSE value

\* lines 245-256: the validator runs on what handleType returned
Validated(entry, typed, flag) ==
    IF ~typed.ok THEN typed ELSE Validate(entry, typed.v, flag)

\* lines 241-245: the enum test, then handleType
Checked(entry, value, flag) ==
    IF Truthy(entry.enum) /\ NotInEnum(entry.enum, value) THEN Fail("InvalidEnum", flag)
    ELSE Validated(entry, handleType(entry, value, flag), flag)

handleValue(entry, rawValue, flag) ==
    Checked(entry, Unwrapped(Defaulted(entry, rawValue)), flag)

(***************************************************************************)
(* handleFlag: the outcome and this.values after the call                  *)
(***************************************************************************)
\* at: the position in split of the token whose callback threw (line 423,
\* counted from 1), 0 for a throw outside the scan over the tokens
Bound(ok, vals, err, flag) ==
    [ok |-> ok, values |-> vals, err |-> err, flag |-> flag, at |-> 0]

\* line 278: the test that decides 'Dublicate flag'
AlreadySet(vals, curr, name) == Truthy(Get(vals, curr.value))

\* line 269: curr.isShort ? this.shortFlags[curr.value] : curr.value
FlagName(shortFlags, curr) ==
    IF curr.isShort
    THEN (IF curr.value \in DOMAIN shortFlags
          THEN Str(shortFlags[curr.value]) ELSE Undef)
    ELSE Str(curr.value)

\* lines 284-288: true for a boolean flag, else next && next.value
FlagValue(entry, hasNext, next) ==
    IF entry.type = "boolean" THEN Bool(TRUE)
    ELSE IF hasNext THEN Str(next.value) ELSE Undef

\* line 290: this.values[name] = the value handleValue returned
Assigned(vals, key, handled) ==
    IF ~handled.ok THEN Bound(FALSE, vals, handled.err, handled.flag)
    ELSE Bound(TRUE, Put(vals, key, handled.v), "", <<>>)

\* lines 278-290, for the entry of the flag
handleEntry(entry, vals, curr, hasNext, next, key) ==
    IF AlreadySet(vals, curr, key) THEN Bound(FALSE, vals, "DuplicateFlag", key)
    ELSE IF entry.type # "boolean" /\ entry.default.t = "undefined"
            /\ (~hasNext \/ next.isFlag)
         THEN Bound(FALSE, vals, "MissingValue", key)
    ELSE Assigned(vals, key,
                  handleValue(entry, FlagValue(entry, hasNext, next), key))

\* lines 270-274, for the property key of the flag's name
handleNamed(config, vals, curr, hasNext, next, key) ==
    IF ~HasFlag(config, key) THEN Bound(FALSE, vals, "UnknownFlag", key)
    ELSE handleEntry(Entry(config, key), vals, curr, hasNext, next, key)

handleFlag(config, shortFlags, vals, curr, hasNext, next) ==
    handleNamed(config, vals, curr, hasNext, next,
                PropertyKey(FlagName(shortFlags, curr)))

(***************************************************************************)
(* parse                                                                   *)
(***************************************************************************)
\* HelpRequested with the bug of looking at the first token only
HelpRequestedFirstOnly(split) ==
    split # <<>> /\ split[1].isFlag /\ split[1].value = HELP

\* lines 410-417: some token is the flag 'help'
HelpRequested(split) ==
    \E i \in 1..Len(split) : split[i].isFlag /\ split[i].value = HELP

\* lines 423-441: the scan over the tokens from index i on
RECURSIVE BindFrom(_, _, _, _, _, _)
\* a throw inside the callback for the token at index i ends the forEach
Thrown(i, bound) == [bound EXCEPT !.at = i]

\* of a throw and the scan of the tokens after it, the later throw
LaterThrow(first, rest) == IF rest.ok THEN first ELSE rest

\* AfterFlag with the bug of scanning on after a throw: the last failure wins
AfterFlagLastWins(config, shortFlags, split, i, skipNext, bound) ==
    IF bound.ok
    THEN BindFrom(config, shortFlags, bound.values, split, i + 1, skipNext)
    ELSE LaterThrow(Thrown(i, bound),
                    BindFrom(config, shortFlags, bound.values, split, i + 1,
                             skipNext))

\* the scan goes on after handleFlag returned, and stops where it threw
AfterFlag(config, shortFlags, split, i, skipNext, bound) ==
    IF ~bound.ok THEN Thrown(i, bound)
    ELSE BindFrom(config, shortFlags, bound.values, split, i + 1, skipNext)

\* lines 424-440 for the token curr at index i and the token after it
BindToken(config, shortFlags, vals, split, i, curr, hasNext, next) ==
    IF ~curr.isFlag /\ hasNext
    THEN Thrown(i, Bound(FALSE, vals, "UnhandledValue", curr.value))
    ELSE IF ~curr.isFlag /\ ~hasNext /\ (i = 1 \/ ~split[i - 1].isFlag)
    THEN BindFrom(config, shortFlags, Put(vals, APPEND, Str(curr.value)),
                  split, i + 1, FALSE)
    ELSE AfterFlag(config, shortFlags, split, i, hasNext /\ ~next.isFlag,
                   handleFlag(config, shortFlags, vals,
                              [curr EXCEPT !.value = camelCase(curr.value)],
                              hasNext, next))

BindFrom(config, shortFlags, vals, split, i, skipNext) ==
    IF i > Len(split) THEN Bound(TRUE, vals, "", <<>>)
    ELSE IF skipNext THEN BindFrom(config, shortFlags, vals, split, i + 1, FALSE)
    ELSE BindToken(config, shortFlags, vals, split, i, split[i],
                   i + 1 <= Len(split),
                   split[IF i + 1 <= Len(split) THEN i + 1 ELSE i])

\* lines 443-451: required flags and defaults, in the order of this.config
RECURSIVE Complete(_, _, _)
\* line 449: this.values[k] = the value handleValue made of the default
AfterDefault(config, vals, i, k, handled) ==
    IF ~handled.ok THEN Bound(FALSE, vals, handled.err, handled.flag)
    ELSE Complete(config, Put(vals, k, handled.v), i + 1)

\* lines 444-450 for the entry v of the flag k
CompleteEntry(config, vals, i, v, k) ==
    IF Truthy(Get(vals, k)) THEN Complete(config, vals, i + 1)
    ELSE IF Truthy(v.required) THEN Bound(FALSE, vals, "MissingRequired", k)
    ELSE IF v.default.t = "undefined" THEN Complete(config, vals, i + 1)
    ELSE AfterDefault(config, vals, i, k, handleValue(v, Undef, k))

Complete(config, vals, i) ==
    IF i > Len(config) THEN Bound(TRUE, vals, "", <<>>)
    ELSE CompleteEntry(config, vals, i, config[i], config[i].name)

\* what parse(line) does to this.values and what it returns: kind is "help"
\* (the sentinel false), "values" (this.values itself) or "error" (a throw)
Outcome(kind, vals, err, flag, at) ==
    [kind |-> kind, values |-> vals, err |-> err, flag |-> flag, at |-> at]
Returned(b) ==
    Outcome(IF b.ok THEN "values" ELSE "error", b.values,
            IF b.ok THEN "" ELSE b.err, IF b.ok THEN <<>> ELSE b.flag,
            IF b.ok THEN 0 ELSE b.at)

\* lines 443-452 after the scan returned, a throw of the scan otherwise
AfterScan(config, scanned) ==
    IF ~scanned.ok THEN Returned(scanned)
    ELSE Returned(Complete(config, scanned.values, 1))

\* lines 410-452 on the tokens of the line
parseTokens(config, shortFlags, vals, split) ==
    IF HelpRequested(split) THEN Outcome("help", vals, "", <<>>, 0)
    ELSE AfterScan(config, BindFrom(config, shortFlags, vals, split, 1, FALSE))

parse(config, shortFlags, vals, line) ==
    parseTokens(config, shortFlags, vals, splitArgs(line))

(***************************************************************************)
(* The constructor: new ArgumentParser(description, config)                *)
(***************************************************************************)
\* a flag's entry as the caller writes it: every attribute left out is
\* undefined ("" for type and subType)
Flag(name) ==
    [name |-> name, printName |-> <<>>, type |-> "", subType |-> "",
     default |-> Undef, required |-> Undef, min |-> Undef, max |-> Undef,
     regex |-> Undef, enum |-> Undef, short |-> Undef, validator |-> Undef]

\* lines 33-36: config.help = {type: 'boolean', ...}; an own key keeps its place
WithHelp(raw) ==
    LET help == [Flag(HELP) EXCEPT !.type = "boolean"]
    IN  IF HasFlag(raw, HELP)
        THEN [i \in 1..Len(raw) |-> IF raw[i].name = HELP THEN help ELSE raw[i]]
        ELSE Append(raw, help)

validTypes == {"number", "integer", "string", "array", "file", "boolean"}
validSubTypes == {"number", "integer", "string", "file"}

\* flagRegex = /^[\w_][\w_-]*$/i
FlagRegexTest(name) ==
    /\ name # <<>>
    /\ name[1] \in WordChars
    /\ \A k \in 2..Len(name) : name[k] \in NameChars

\* lines 51, 63, 68: the attributes the constructor writes into the entry
Normalized(f) ==
    [f EXCEPT !.printName = kebabCase(f.name),
              !.type = IF f.type = "" THEN "string" ELSE f.type,
              !.subType = IF f.subType = "" THEN "string" ELSE f.subType]

\* lines 53-55
RequiredAndDefault(f) == Truthy(f.required) /\ Truthy(f.default)

\* lines 57-61
EnumAndAttributes(f) ==
    /\ Truthy(f.enum)
    /\ (f.type # "" \/ f.subType # "" \/ Truthy(f.regex) \/ Truthy(f.min) \/ Truthy(f.max))

\* the test of line 105 with the bug of never finding an alias taken
ShortNeverTaken(shortFlags, short) == FALSE

\* line 105: this.shortFlags[flagConfig.short], the name of a flag when set
ShortTaken(shortFlags, short) == short.s \in DOMAIN shortFlags

\* lines 47-108: the first check the entry f fails, "" when it passes them
\* all; n is the entry with its defaults filled in
EntryError(f, n, shortFlags) ==
    IF ~FlagRegexTest(f.name) THEN "InvalidFlagName"
    ELSE IF RequiredAndDefault(f) THEN "RequiredWithDefault"
    ELSE IF EnumAndAttributes(f) THEN "EnumWithAttributes"
    ELSE IF n.type \notin validTypes THEN "InvalidType"
    ELSE IF n.type = "array" /\ n.subType \notin validSubTypes THEN "InvalidSubType"
    ELSE IF Truthy(f.regex) /\ n.type \in {"number", "integer"} THEN "RegexOnNumber"
    ELSE IF Truthy(f.regex) /\ f.regex.t # "regexp" THEN "InvalidRegex"
    ELSE IF Truthy(f.min) /\ f.min.t # "number" THEN "InvalidMin"
    ELSE IF Truthy(f.max) /\ f.max.t # "number" THEN "InvalidMax"
    ELSE IF Truthy(f.validator) /\ f.validator.t # "function" THEN "InvalidValidator"
    ELSE IF Truthy(f.short) /\ f.short.t # "string" THEN "InvalidShort"
    ELSE IF Truthy(f.short) /\ ~(Len(f.short.s) = 1 /\ f.short.s[1] \in WordChars)
         THEN "InvalidShort"
    ELSE IF Truthy(f.short) /\ ShortTaken(shortFlags, f.short) THEN "DuplicateShort"
    ELSE ""
SchemaError(f, shortFlags) == EntryError(f, Normalized(f), shortFlags)

\* the entry as a throw of check err leaves it: printName is written before
\* the check of line 53, type before that of line 64, subType before line 70
Interrupted(f, err) ==
    [f EXCEPT !.printName = IF err = "InvalidFlagName" THEN f.printName
                            ELSE Normalized(f).printName,
              !.type = IF err \in {"InvalidFlagName", "RequiredWithDefault",
                                   "EnumWithAttributes"}
                       THEN f.type ELSE Normalized(f).type,
              !.subType = IF err \in {"InvalidFlagName", "RequiredWithDefault",
                                      "EnumWithAttributes", "InvalidType"}
                          THEN f.subType ELSE Normalized(f).subType]

Built(ok, config, shortFlags, err) ==
    [ok |-> ok, config |-> config, shortFlags |-> shortFlags, err |-> err]

\* lines 46-111: the forEach over this.config from entry i on
RECURSIVE NormalizeFrom(_, _, _)
\* the entry f at index i: the throw of its first failing check, else the
\* entry normalized and its alias recorded (line 109)
NormalizeEntry(config, shortFlags, i, f, err) ==
    IF err # "" THEN Built(FALSE, [config EXCEPT ![i] = Interrupted(f, err)],
                           shortFlags, err)
    ELSE NormalizeFrom([config EXCEPT ![i] = Normalized(f)],
                       IF Truthy(f.short) THEN Put(shortFlags, f.short.s, f.name)
                       ELSE shortFlags,
                       i + 1)
NormalizeFrom(config, shortFlags, i) ==
    IF i > Len(config) THEN Built(TRUE, config, shortFlags, "")
    ELSE NormalizeEntry(config, shortFlags, i, config[i],
                        SchemaError(config[i], shortFlags))

ArgumentParser(raw) == NormalizeFrom(WithHelp(raw), EmptyObject, 1)

(***************************************************************************)
(* getFlagHelpInfo and the rows of getHelpString                           *)
(***************************************************************************)
\* String(n), and what join(',') makes of the elements of an array
RECURSIVE DigitsOf(_)
DigitsOf(k) ==
    IF k < 10 THEN <<DigitSeq[k + 1]>>
    ELSE DigitsOf(k \div 10) \o <<DigitSeq[(k % 10) + 1]>>

\* the decimal literal of a number kept in tenths
ShowNum(n) ==
    LET m == IF n < 0 THEN -n ELSE n
    IN  (IF n < 0 THEN <<"-">> ELSE <<>>)
        \o DigitsOf(m \div 10)
        \o (IF m % 10 = 0 THEN <<>> ELSE <<".">> \o DigitsOf(m % 10))

RECURSIVE ShowValue(_)
ShowValue(v) ==
    CASE v.t = "string" -> v.s
      [] v.t = "number" -> ShowNum(v.n)
      [] v.t = "array"  -> Join([k \in 1..Len(v.a) |-> ShowValue(v.a[k])], <<",">>)

\* the text of a type name
TypeText(type) ==
    CASE type = "number"  -> <<"n","u","m","b","e","r">>
      [] type = "integer" -> <<"i","n","t","e","g","e","r">>
      [] type = "string"  -> <<"s","t","r","i","n","g">>
      [] type = "array"   -> <<"a","r","r","a","y">>
      [] type = "file"    -> <<"f","i","l","e">>
      [] type = "boolean" -> <<"b","o","o","l","e","a","n">>
      [] OTHER            -> <<>>

\* regex.source
RegexSource(re) ==
    CASE re.id = "lower"  -> <<"^","[","a","-","z","]","+","$">>
      [] re.id = "digits" -> <<"^","[","0","-","9","]","+","$">>

\* lines 301-319: the type column of a flag
typeString(conf) ==
    IF Truthy(conf.enum)
    THEN <<"e","n","u","m"," ","(">> \o ShowValue(conf.enum) \o <<")">>
    ELSE CASE conf.type \in {"number", "integer"} ->
                (IF Truthy(conf.min) THEN ShowNum(conf.min.n) \o <<"<", "=">> ELSE <<>>)
                \o TypeText(conf.type)
                \o (IF Truthy(conf.max) THEN <<"<", "=">> \o ShowNum(conf.max.n) ELSE <<>>)
           [] conf.type = "string" ->
                TypeText("string")
                \o (IF Truthy(conf.regex)
                    THEN <<" ","m","a","t","c","h","i","n","g"," ">> \o RegexSource(conf.regex) ELSE <<>>)
           [] conf.type = "array" -> <<"a","r","r","a","y"," ","o","f"," ">> \o TypeText(conf.subType)
           [] conf.type = "file" -> TypeText("file")
           [] OTHER -> <<>>

\* lines 321-327; descriptions are free text the schemas here do not carry
getFlagHelpInfo(conf) ==
    [printName |-> conf.printName,
     type |-> typeString(conf),
     default |-> IF conf.default.t # "undefined" THEN conf.default ELSE Str(<<>>),
     required |-> (conf.required = Bool(TRUE))]

\* lines 337-339: _.map(this.config, ...), one row per flag in schema order
helpInfos(config) == [i \in 1..Len(config) |-> getFlagHelpInfo(config[i])]

\* the characters of a display name in the order of their UTF-16 codes
CodeSeq == <<"-">> \o DigitSeq \o UpperSeq \o <<"_">> \o LowerSeq
Code(c) == IndexOf(CodeSeq, c)

\* a < b for strings: the first differing code unit decides, and a proper
\* prefix is less
RECURSIVE StrLess(_, _)
StrLess(a, b) ==
    IF b = <<>> THEN FALSE
    ELSE IF a = <<>> THEN TRUE
    ELSE IF a[1] # b[1] THEN Code(a[1]) < Code(b[1])
    ELSE StrLess(Tail(a), Tail(b))

\* lodash _.sortBy(collection, 'printName'): a new array, ascending by
\* printName and stable; the collection itself is left as it is
RECURSIVE Inserted(_, _)
Inserted(sorted, row) ==
    IF sorted = <<>> THEN <<row>>
    ELSE IF StrLess(row.printName, sorted[Len(sorted)].printName)
         THEN Append(Inserted(SubSeq(sorted, 1, Len(sorted) - 1), row),
                     sorted[Len(sorted)])
    ELSE Append(sorted, row)
RECURSIVE sortBy(_)
sortBy(rows) ==
    IF rows = <<>> THEN <<>>
    ELSE Inserted(sortBy(SubSeq(rows, 1, Len(rows) - 1)), rows[Len(rows)])

\* line 341, the statement `_.sortBy(helpInfos, 'printName');`: the array
\* that sortBy returns is not assigned, and helpInfos keeps its order
Unassigned(infos, sorted) == infos

\* lines 335-398: the rows getHelpString prints below the header lines, in
\* the order it prints them (the padding of the columns is left out)
getHelpString(config) ==
    Unassigned(helpInfos(config), sortBy(helpInfos(config)))

(***************************************************************************)
(* The schemas and the lines the parser is run on                          *)
(***************************************************************************)
K_test == <<"t","e","s","t">>
K_name == <<"n","a","m","e">>
K_req == <<"r","e","q">>
K_opt == <<"o","p","t">>
K_zero == <<"z","e","r","o">>
K_neg == <<"n","e","g">>
K_word == <<"w","o","r","d">>
K_list == <<"l","i","s","t">>
K_rate == <<"r","a","t","e">>
K_nums == <<"n","u","m","s">>
K_n == <<"n">>
K_hi == <<"h","i">>
K_top == <<"t","o","p">>
K_port == <<"p","o","r","t">>
K_color == <<"c","o","l","o","r">>
K_level == <<"l","e","v","e","l">>
K_alpha == <<"a","l","p","h","a">>
K_apple == <<"a","p","p","l","e">>
K_myFlag == <<"m","y","F","l","a","g">>
K_my_key == <<"m","y","_","k","e","y">>
K_even == <<"e","v","e","n">>
K_twice == <<"t","w","i","c","e">>
K_never == <<"n","e","v","e","r">>
K_on == <<"o","n">>
K_off == <<"o","f","f">>
K_plain == <<"p","l","a","i","n">>

\* an integer and a string flag, both with a short alias
SchemaTyped ==
    << [Flag(K_test) EXCEPT !.type = "integer", !.short = Str(<<"t">>)],
       [Flag(K_name) EXCEPT !.short = Str(<<"n">>)] >>

\* a required flag beside an optional one
SchemaRequired ==
    << [Flag(K_req) EXCEPT !.type = "integer", !.required = Bool(TRUE)],
       [Flag(K_opt) EXCEPT !.type = "string", !.short = Str(<<"o">>)] >>

\* defaults 0, -1, 'x', ['1', '2'] and 1.5
SchemaDefaults ==
    << [Flag(K_zero) EXCEPT !.type = "integer", !.default = Whole(0)],
       [Flag(K_neg) EXCEPT !.type = "integer", !.default = Whole(-1)],
       [Flag(K_word) EXCEPT !.type = "string", !.default = Str(<<"x">>)],
       [Flag(K_list) EXCEPT !.type = "array", !.subType = "integer",
                            !.default = Arr(<<Str(<<"1">>), Str(<<"2">>)>>)],
       [Flag(K_rate) EXCEPT !.type = "number", !.default = Num(15)] >>

\* an array default written as numbers: [1, 2]
SchemaNums ==
    << [Flag(K_nums) EXCEPT !.type = "array", !.subType = "integer",
                            !.default = Arr(<<Whole(1), Whole(2)>>)] >>

\* arrays of integers in 0..5, of strings, and of strings matching /^[a-z]+$/
SchemaArrays ==
    << [Flag(<<"a">>) EXCEPT !.type = "array", !.subType = "integer",
                             !.min = Whole(0), !.max = Whole(5)],
       [Flag(<<"b">>) EXCEPT !.type = "array", !.subType = "string"],
       [Flag(<<"c">>) EXCEPT !.type = "array", !.subType = "string",
                             !.regex = RegExp("lower")] >>

\* three boolean flags aliased by their own names (test/index.js, '-abc')
SchemaBooleans ==
    << [Flag(<<"a">>) EXCEPT !.type = "boolean", !.short = Str(<<"a">>)],
       [Flag(<<"b">>) EXCEPT !.type = "boolean", !.short = Str(<<"b">>)],
       [Flag(<<"c">>) EXCEPT !.type = "boolean", !.short = Str(<<"c">>)] >>

\* two boolean flags, the alias of one spelled like the name of the other
SchemaCrossed ==
    << [Flag(<<"t">>) EXCEPT !.type = "boolean", !.short = Str(<<"x">>)],
       [Flag(K_test) EXCEPT !.type = "boolean", !.short = Str(<<"t">>)] >>

\* the same spellings on flags that take a value (spec: flag 't' and flag
\* 'test' with alias 't')
SchemaCrossedValues ==
    << [Flag(<<"t">>) EXCEPT !.type = "integer"],
       [Flag(K_test) EXCEPT !.type = "integer", !.short = Str(<<"t">>)] >>

\* numeric bounds: 1..5, a maximum of 0, a maximum of -1
SchemaBounded ==
    << [Flag(K_n) EXCEPT !.type = "integer", !.min = Whole(1), !.max = Whole(5)],
       [Flag(K_hi) EXCEPT !.type = "number", !.max = Whole(0)],
       [Flag(K_top) EXCEPT !.type = "integer", !.max = Whole(-1)] >>

\* required together with a default: 0, then 5
SchemaRequiredZero ==
    << [Flag(K_port) EXCEPT !.type = "integer", !.required = Bool(TRUE),
                            !.default = Whole(0)] >>
SchemaRequiredDefault ==
    << [Flag(K_port) EXCEPT !.type = "integer", !.required = Bool(TRUE),
                            !.default = Whole(5)] >>

\* an enum flag; an enum with min: 0; an enum with a type
Colors == Arr(<<Str(<<"r","e","d">>), Str(<<"b","l","u","e">>)>>)
SchemaEnum == << [Flag(K_color) EXCEPT !.enum = Colors] >>
SchemaEnumZero == << [Flag(K_level) EXCEPT !.enum = Colors, !.min = Whole(0)] >>
SchemaEnumTyped == << [Flag(K_color) EXCEPT !.enum = Colors, !.type = "string"] >>

\* two flags that declare the alias 'a'
SchemaSameShort ==
    << [Flag(K_alpha) EXCEPT !.short = Str(<<"a">>)],
       [Flag(K_apple) EXCEPT !.short = Str(<<"a">>)] >>

\* names in camel case and with an underscore
SchemaNames == << Flag(K_myFlag), Flag(K_my_key) >>

\* validators: one that checks, one that transforms (on a flag with a
\* default), one that always throws
SchemaValidated ==
    << [Flag(K_even) EXCEPT !.type = "integer", !.validator = Function("even")],
       [Flag(K_twice) EXCEPT !.type = "integer", !.validator = Function("double"),
                             !.default = Whole(3)],
       [Flag(K_never) EXCEPT !.type = "integer", !.validator = Function("reject")] >>

\* boolean flags with the defaults true and false, and without a default
SchemaSwitches ==
    << [Flag(K_on) EXCEPT !.type = "boolean", !.default = Bool(TRUE)],
       [Flag(K_off) EXCEPT !.type = "boolean", !.default = Bool(FALSE)],
       [Flag(K_plain) EXCEPT !.type = "boolean"] >>

Schemas == {SchemaTyped, SchemaRequired, SchemaDefaults, SchemaNums,
            SchemaArrays, SchemaBooleans, SchemaCrossed, SchemaCrossedValues,
            SchemaBounded, SchemaRequiredZero, SchemaRequiredDefault,
            SchemaEnum, SchemaEnumZero, SchemaEnumTyped, SchemaSameShort,
            SchemaNames, SchemaValidated, SchemaSwitches}

LinesCommon ==
    {
      \* --bogus 1 --nope 2
      <<"-","-","b","o","g","u","s"," ","1"," ","-","-","n","o","p","e"," ","2">>,
      \* x y
      <<"x"," ","y">>,
      \* (the empty line)
      <<>>,
      \* --help
      <<"-","-","h","e","l","p">>,
      \* --bogus
      <<"-","-","b","o","g","u","s">>,
      \* leftover
      <<"l","e","f","t","o","v","e","r">>,
      \* --bogus --help
      <<"-","-","b","o","g","u","s"," ","-","-","h","e","l","p">>
    }

LinesTyped ==
    {
      \* --name a --bogus 1 --nope 2
      <<"-","-","n","a","m","e"," ","a"," ","-","-","b","o","g","u","s"," ","1"," ","-","-","n","o","p","e"," ","2">>,
      \* x y --test 1
      <<"x"," ","y"," ","-","-","t","e","s","t"," ","1">>,
      \* --test 1 x y
      <<"-","-","t","e","s","t"," ","1"," ","x"," ","y">>,
      \* -name
      <<"-","n","a","m","e">>,
      \* -name x
      <<"-","n","a","m","e"," ","x">>,
      \* --test 1 leftover
      <<"-","-","t","e","s","t"," ","1"," ","l","e","f","t","o","v","e","r">>,
      \* --test
      <<"-","-","t","e","s","t">>,
      \* --name x --test
      <<"-","-","n","a","m","e"," ","x"," ","-","-","t","e","s","t">>,
      \* --test 1 --help
      <<"-","-","t","e","s","t"," ","1"," ","-","-","h","e","l","p">>,
      \* x y --help
      <<"x"," ","y"," ","-","-","h","e","l","p">>,
      \* --test 123
      <<"-","-","t","e","s","t"," ","1","2","3">>,
      \* --test 0
      <<"-","-","t","e","s","t"," ","0">>,
      \* --test -5
      <<"-","-","t","e","s","t"," ","-","5">>,
      \* --test +7
      <<"-","-","t","e","s","t"," ","+","7">>,
      \* --test 1.5
      <<"-","-","t","e","s","t"," ","1",".","5">>,
      \* --test -1.5
      <<"-","-","t","e","s","t"," ","-","1",".","5">>,
      \* --test 1 --test 2
      <<"-","-","t","e","s","t"," ","1"," ","-","-","t","e","s","t"," ","2">>,
      \* -t 1 -t 2
      <<"-","t"," ","1"," ","-","t"," ","2">>,
      \* --test 1 -t 2
      <<"-","-","t","e","s","t"," ","1"," ","-","t"," ","2">>,
      \* --test 0 --test 1
      <<"-","-","t","e","s","t"," ","0"," ","-","-","t","e","s","t"," ","1">>,
      \* --name "" --name x
      <<"-","-","n","a","m","e"," ","\"","\""," ","-","-","n","a","m","e"," ","x">>,
      \* --name x --name y
      <<"-","-","n","a","m","e"," ","x"," ","-","-","n","a","m","e"," ","y">>,
      \* --name x
      <<"-","-","n","a","m","e"," ","x">>
    }

LinesRequired ==
    {
      \* --req 1
      <<"-","-","r","e","q"," ","1">>,
      \* --req 0
      <<"-","-","r","e","q"," ","0">>,
      \* --opt x
      <<"-","-","o","p","t"," ","x">>,
      \* -o x --help
      <<"-","o"," ","x"," ","-","-","h","e","l","p">>
    }

LinesDefaults ==
    {
      \* --neg 0
      <<"-","-","n","e","g"," ","0">>,
      \* --word ""
      <<"-","-","w","o","r","d"," ","\"","\"">>,
      \* --word --zero 1
      <<"-","-","w","o","r","d"," ","-","-","z","e","r","o"," ","1">>,
      \* --zero --word x
      <<"-","-","z","e","r","o"," ","-","-","w","o","r","d"," ","x">>,
      \* --zero
      <<"-","-","z","e","r","o">>,
      \* --neg 5
      <<"-","-","n","e","g"," ","5">>,
      \* --zero 0
      <<"-","-","z","e","r","o"," ","0">>,
      \* --neg -1
      <<"-","-","n","e","g"," ","-","1">>,
      \* --word x
      <<"-","-","w","o","r","d"," ","x">>,
      \* --list 1,2
      <<"-","-","l","i","s","t"," ","1",",","2">>,
      \* --rate 1.5
      <<"-","-","r","a","t","e"," ","1",".","5">>
    }

LinesNums ==
    {
      \* --nums 1,2
      <<"-","-","n","u","m","s"," ","1",",","2">>
    }

LinesArrays ==
    {
      \* --a 1,2,3
      <<"-","-","a"," ","1",",","2",",","3">>,
      \* --a 1,x
      <<"-","-","a"," ","1",",","x">>,
      \* --a 1,9
      <<"-","-","a"," ","1",",","9">>,
      \* --a 1,-2
      <<"-","-","a"," ","1",",","-","2">>,
      \* --a 1.5,2
      <<"-","-","a"," ","1",".","5",",","2">>,
      \* --b "x,y",z
      <<"-","-","b"," ","\"","x",",","y","\"",",","z">>,
      \* --b "a","b"
      <<"-","-","b"," ","\"","a","\"",",","\"","b","\"">>,
      \* --b "hello,my,is a,x"
      <<"-","-","b"," ","\"","h","e","l","l","o",",","m","y",",","i","s"," ","a",",","x","\"">>,
      \* --b x,y
      <<"-","-","b"," ","x",",","y">>,
      \* --b 'p,q'
      <<"-","-","b"," ","'","p",",","q","'">>,
      \* --c ab,cd
      <<"-","-","c"," ","a","b",",","c","d">>,
      \* --c ab,1
      <<"-","-","c"," ","a","b",",","1">>
    }

LinesBooleans ==
    {
      \* -a x y
      <<"-","a"," ","x"," ","y">>,
      \* -a leftover
      <<"-","a"," ","l","e","f","t","o","v","e","r">>,
      \* -abc
      <<"-","a","b","c">>,
      \* -a
      <<"-","a">>,
      \* -cb
      <<"-","c","b">>
    }

LinesCrossed ==
    {
      \* -xt
      <<"-","x","t">>,
      \* -tx
      <<"-","t","x">>
    }

LinesCrossedValues ==
    {
      \* --t 1 -t 2
      <<"-","-","t"," ","1"," ","-","t"," ","2">>,
      \* --t 1 -t
      <<"-","-","t"," ","1"," ","-","t">>,
      \* -t 2
      <<"-","t"," ","2">>
    }

LinesBounded ==
    {
      \* --n 9
      <<"-","-","n"," ","9">>,
      \* --n 0
      <<"-","-","n"," ","0">>,
      \* --n 3
      <<"-","-","n"," ","3">>,
      \* --hi 3
      <<"-","-","h","i"," ","3">>,
      \* --top 0
      <<"-","-","t","o","p"," ","0">>
    }

LinesPort ==
    {
      \* --port 8
      <<"-","-","p","o","r","t"," ","8">>
    }

LinesEnum ==
    {
      \* --color red
      <<"-","-","c","o","l","o","r"," ","r","e","d">>,
      \* --color green
      <<"-","-","c","o","l","o","r"," ","g","r","e","e","n">>
    }

LinesLevel ==
    {
      \* --level red
      <<"-","-","l","e","v","e","l"," ","r","e","d">>
    }

LinesNames ==
    {
      \* --my-flag x
      <<"-","-","m","y","-","f","l","a","g"," ","x">>,
      \* --my-key x
      <<"-","-","m","y","-","k","e","y"," ","x">>
    }

LinesValidated ==
    {
      \* --even 2
      <<"-","-","e","v","e","n"," ","2">>,
      \* --even 3
      <<"-","-","e","v","e","n"," ","3">>,
      \* --twice 4
      <<"-","-","t","w","i","c","e"," ","4">>,
      \* --twice 0
      <<"-","-","t","w","i","c","e"," ","0">>,
      \* --never x
      <<"-","-","n","e","v","e","r"," ","x">>,
      \* --never 1
      <<"-","-","n","e","v","e","r"," ","1">>
    }

LinesSwitches ==
    {
      \* --off
      <<"-","-","o","f","f">>,
      \* --plain
      <<"-","-","p","l","a","i","n">>,
      \* --on
      <<"-","-","o","n">>,
      \* --off --plain
      <<"-","-","o","f","f"," ","-","-","p","l","a","i","n">>
    }

\* the lines the owner of a parser feeds it: the common ones and those
\* written for its schema raw
InputLines(raw) ==
    LinesCommon \cup
    (CASE raw = SchemaTyped -> LinesTyped
       [] raw = SchemaRequired -> LinesRequired
       [] raw = SchemaDefaults -> LinesDefaults
       [] raw = SchemaNums -> LinesNums
       [] raw = SchemaArrays -> LinesArrays
       [] raw = SchemaBooleans -> LinesBooleans
       [] raw = SchemaCrossed -> LinesCrossed
       [] raw = SchemaCrossedValues -> LinesCrossedValues
       [] raw = SchemaBounded -> LinesBounded
       [] raw \in {SchemaRequiredZero, SchemaRequiredDefault} -> LinesPort
       [] raw \in {SchemaEnum, SchemaEnumTyped} -> LinesEnum
       [] raw = SchemaEnumZero -> LinesLevel
       [] raw = SchemaNames -> LinesNames
       [] raw = SchemaValidated -> LinesValidated
       [] raw = SchemaSwitches -> LinesSwitches
       [] OTHER -> {})

(***************************************************************************)
(* The parser instance                                                     *)
(***************************************************************************)
VARIABLES
    schema,       \* the config object as its owner wrote it
    thrown,       \* what the last constructor call threw, "" when it returned
    config,       \* this.config, normalised by the constructor
    shortFlags,   \* this.shortFlags
    values,       \* this.values
    result,       \* the last parse call: what it returned or threw
    line,         \* the last parse call: its argument
    before,       \* the last parse call: this.values when it was called
    allReturned   \* no parse call before the last one threw

vars == <<schema, thrown, config, shortFlags, values, result, line, before, allReturned>>

NoResult == [kind |-> "none", err |-> "", flag |-> <<>>, at |-> 0]

\* the instance the constructor leaves behind; when it throws there is none,
\* and the config object stays as far as the constructor has rewritten it
Constructed(built) ==
    /\ thrown = built.err
    /\ config = built.config
    /\ shortFlags = built.shortFlags
    /\ values = EmptyObject
    /\ result = NoResult
    /\ line = <<>>
    /\ before = EmptyObject
    /\ allReturned = TRUE

\* new ArgumentParser(description, raw)
Init == \E raw \in Schemas : schema = raw /\ Constructed(ArgumentParser(raw))

\* the instance after parse(l) returned or threw out
Parsed(l, out) ==
    /\ values' = out.values
    /\ result' = [kind |-> out.kind, err |-> out.err, flag |-> out.flag,
                   at |-> out.at]
    /\ line' = l
    /\ before' = values
    /\ allReturned' = (allReturned /\ result.kind # "error")
    /\ UNCHANGED <<schema, thrown, config, shortFlags>>

\* parser.parse(l), on the instance a constructor call returned
Parse(l) == thrown = "" /\ Parsed(l, parse(config, shortFlags, values, l))

\* the new instance of a second constructor call on the same config object
Rebuilt(built) ==
    /\ thrown' = built.err
    /\ config' = built.config
    /\ shortFlags' = built.shortFlags
    /\ values' = EmptyObject
    /\ result' = NoResult
    /\ line' = <<>>
    /\ before' = EmptyObject
    /\ allReturned' = TRUE
    /\ UNCHANGED schema

\* new ArgumentParser(description, config) with the config object that the
\* first constructor call has normalised in place
Reconstruct == thrown = "" /\ Rebuilt(ArgumentParser(config))

Next ==
    \/ \E l \in InputLines(schema) : Parse(l)
    \/ Reconstruct

Spec == Init /\ [][Next]_vars

(***************************************************************************)
(* Properties                                                              *)
(***************************************************************************)
Called == result.kind # "none"

\* what a newly constructed parser with the same schema does with line l
FreshParse(l) == parse(config, shortFlags, EmptyObject, l)

\* the schema key a flag token names: its alias looked up, its long name
\* taken from display form to camel case
Resolved(tok) ==
    IF ~tok.isShort THEN camelCase(tok.value)
    ELSE IF camelCase(tok.value) \in DOMAIN shortFlags
         THEN shortFlags[camelCase(tok.value)]
    ELSE <<>>

\* some flag token of line l names schema key k
Names(l, k) ==
    \E i \in 1..Len(splitArgs(l)) :
        splitArgs(l)[i].isFlag /\ Resolved(splitArgs(l)[i]) = k

\* C1: a parser is safe to reuse: after calls that all returned (a mapping
\* or the help sentinel), parse(L2) returns exactly what a newly constructed
\* parser with the same schema returns for L2.
C1_ReuseEqualsFresh ==
    (Called /\ allReturned) =>
        /\ result.kind = FreshParse(line).kind
        /\ result.err = FreshParse(line).err
        /\ (result.kind = "values" => values = FreshParse(line).values)

\* the word --help stands at position i of l, outside any quoted segment
HelpAt(l, i) ==
    /\ i + 5 <= Len(l)
    /\ SubSeq(l, i, i + 5) = <<"-","-">> \o HELP
    /\ (i = 1 \/ l[i - 1] = " ")
    /\ (i + 5 = Len(l) \/ l[i + 6] = " ")
    /\ \A k \in 1..(i - 1) : l[k] \notin Quotes

\* C2: parse of any line that contains the flag --help, at any position and
\* whatever the other tokens are, returns the sentinel false and raises no
\* error.
C2_HelpReturnsFalse ==
    (Called /\ \E i \in 1..Len(line) : HelpAt(line, i)) => result.kind = "help"

\* C2's case: --help is not the first token, a required flag is missing, and
\* parse returned the sentinel
C2_Witness ==
    /\ result.kind = "help"
    /\ ~HelpAt(line, 1)
    /\ \E i \in 1..Len(config) : Truthy(config[i].required) /\ ~Names(line, config[i].name)

\* line l is `flag value flag value` with both flags naming one schema flag
\* and the first value accepted by that flag
AssignsTwice(l) ==
    LET sp == splitArgs(l)
        k == Resolved(sp[1])
    IN  /\ Len(sp) = 4
        /\ sp[1].isFlag /\ ~sp[2].isFlag /\ sp[3].isFlag /\ ~sp[4].isFlag
        /\ HasFlag(config, k)
        /\ Resolved(sp[3]) = k
        /\ handleValue(Entry(config, k), Str(sp[2].value), k).ok

\* C3: a line that assigns the same schema flag twice fails with
\* DuplicateFlag, however the flag is named the two times and whatever value
\* the first assignment produced.
C3_TwiceIsDuplicate ==
    (Called /\ AssignsTwice(line)) =>
        (result.kind = "error" /\ result.err = "DuplicateFlag")

\* C4: a required flag that the line omits makes parse raise MissingRequired
\* naming that flag, for every line that does not request help and whose
\* tokens are all bound without error.
C4_OmittedRequiredRaises ==
    \A i \in 1..Len(config) :
        ( /\ Called
          /\ Truthy(config[i].required)
          /\ ~Names(line, config[i].name)
          /\ ~HelpRequested(splitArgs(line))
          /\ BindFrom(config, shortFlags, before, splitArgs(line), 1, FALSE).ok )
        => ( /\ result.kind = "error"
             /\ result.err = "MissingRequired"
             /\ result.flag = config[i].name )

\* the instance is as new when parse is called: this.values holds nothing
Fresh == DOMAIN before = {}

\* --- how a value is written on a command line -------------------------
\* the line `--<display name> <text>`
FlagLine(f, text) == <<"-", "-">> \o f.printName \o <<" ">> \o text

\* l is `--<display name> <text>` for flag f: the text, which is one bare token
IsFlagLine(l, f) ==
    /\ Len(l) > Len(FlagLine(f, <<>>))
    /\ SubSeq(l, 1, Len(FlagLine(f, <<>>))) = FlagLine(f, <<>>)
TextOf(l, f) == SubSeq(l, Len(FlagLine(f, <<>>)) + 1, Len(l))

\* C5: for every non-boolean flag f with a default d, the line that supplies
\* d explicitly for f gives the same result as the line that omits f.
C5_DefaultIdempotent ==
    \A i \in 1..Len(config) :
        ( /\ Called /\ Fresh
          /\ config[i].default.t # "undefined"
          /\ config[i].type # "boolean"
          /\ line = FlagLine(config[i], ShowValue(config[i].default)) )
        => ( /\ result.kind = FreshParse(<<>>).kind
             /\ result.kind = "values"
             /\ values = FreshParse(<<>>).values )

\* --- integer literals -------------------------------------------------
Unsigned(s) == IF s # <<>> /\ s[1] \in {"+", "-"} THEN Tail(s) ELSE s
IntegerLiteral(s) ==
    Unsigned(s) # <<>> /\ \A k \in 1..Len(Unsigned(s)) : Unsigned(s)[k] \in Digits
LiteralValue(s) ==
    IF s[1] = "-" THEN -DigitsVal(Unsigned(s)) ELSE DigitsVal(Unsigned(s))

Unconstrained(f) ==
    /\ f.default.t = "undefined" /\ f.min.t = "undefined" /\ f.max.t = "undefined"
    /\ f.enum.t = "undefined" /\ f.validator.t = "undefined"
    /\ f.required.t = "undefined"

\* C6: for an integer flag f without constraints or default, parse('--f N')
\* returns {f: N} for every integer literal N, signed or not, and fails with
\* NotInteger for every value that contains a decimal point.
C6_IntegerRoundTrip ==
    \A i \in 1..Len(config) :
        ( /\ Called /\ Fresh
          /\ config[i].type = "integer" /\ Unconstrained(config[i])
          /\ IsFlagLine(line, config[i]) )
        => LET N == TextOf(line, config[i])
           IN  /\ IntegerLiteral(N) =>
                    ( /\ result.kind = "values"
                      /\ values = (config[i].name :> Whole(LiteralValue(N))) )
               /\ ((\A k \in 1..Len(N) : N[k] # " ") /\ (\E k \in 1..Len(N) : N[k] = "."))
                    => (result.kind = "error" /\ result.err = "NotInteger")

\* --- arrays -----------------------------------------------------------
\* the positions of the commas of s, and its parts between them
Commas(s) == {k \in 1..Len(s) : s[k] = ","}
CutsOf(s, cs) == {0} \cup cs \cup {Len(s) + 1}
PartsAt(s, cs) ==
    LET cuts == CutsOf(s, cs)
        Nth(n) == CHOOSE c \in cuts : Cardinality({d \in cuts : d < c}) = n
    IN  [n \in 1..(Cardinality(cuts) - 1) |-> SubSeq(s, Nth(n - 1) + 1, Nth(n) - 1)]
CommaParts(s) == PartsAt(s, Commas(s))

\* s without one pair of matching quotes around it
Unquoted(s) ==
    IF Len(s) >= 2 /\ s[1] \in Quotes /\ s[Len(s)] = s[1]
    THEN SubSeq(s, 2, Len(s) - 1) ELSE s

\* the element a part of an array value stands for under the subType rules,
\* Undef when the part breaks one: a malformed number, a bound that is
\* defined and not met, a regex that does not match
Element(f, part) ==
    LET q == Unquoted(part)
        n == 10 * LiteralValue(q)
    IN  CASE f.subType = "integer" ->
               IF ~IntegerLiteral(q) THEN Undef
               ELSE IF f.min.t = "number" /\ n < f.min.n THEN Undef
               ELSE IF f.max.t = "number" /\ n > f.max.n THEN Undef
               ELSE Num(n)
          [] f.subType = "string" ->
               IF f.regex.t = "regexp" /\ ~RegexTest(f.regex, q) THEN Undef
               ELSE Str(q)

\* l is `--<display name> <raw>` for flag f with raw one bare token
IsValueLine(l, f) ==
    /\ IsFlagLine(l, f)
    /\ Len(splitArgs(l)) = 2
    /\ ~splitArgs(l)[2].isFlag
    /\ splitArgs(l)[2].value = TextOf(l, f)

\* C7: the value of an array flag is the sequence of the comma-separated
\* parts of the raw value, in order, each coerced by the subType rules; parse
\* fails if one element fails its coercion or its min/max/regex check.
C7_ArrayElementwise ==
    \A i \in 1..Len(config) :
        ( /\ Called /\ Fresh
          /\ config[i].type = "array"
          /\ IsValueLine(line, config[i]) )
        => LET parts == CommaParts(Unquoted(TextOf(line, config[i])))
               elems == [k \in 1..Len(parts) |-> Element(config[i], parts[k])]
           IN  IF \E k \in 1..Len(parts) : elems[k].t = "undefined"
               THEN result.kind = "error"
               ELSE /\ result.kind = "values"
                    /\ Get(values, config[i].name) = Arr(elems)

\* the commas of s that stand outside every quoted segment
RECURSIVE OpenCommas(_, _, _)
OpenCommas(s, k, open) ==
    IF k > Len(s) THEN {}
    ELSE IF open # "" THEN OpenCommas(s, k + 1, IF s[k] = open THEN "" ELSE open)
    ELSE IF s[k] \in Quotes THEN OpenCommas(s, k + 1, s[k])
    ELSE (IF s[k] = "," THEN {k} ELSE {}) \cup OpenCommas(s, k + 1, "")

\* C8: quoting is honoured inside array values: a comma inside a quoted
\* segment does not split the element, and the segment's content is one
\* value, verbatim ('--a "x,y",z' yields ['x,y', 'z']).
C8_QuotedCommaKept ==
    \A i \in 1..Len(config) :
        ( /\ Called /\ Fresh
          /\ config[i].type = "array" /\ config[i].subType = "string"
          /\ config[i].regex.t = "undefined"
          /\ IsValueLine(line, config[i])
          /\ Unquoted(TextOf(line, config[i])) = TextOf(line, config[i]) )
        => LET raw == TextOf(line, config[i])
               parts == PartsAt(raw, OpenCommas(raw, 1, ""))
           IN  /\ result.kind = "values"
               /\ Get(values, config[i].name)
                    = Arr([k \in 1..Len(parts) |-> Str(Unquoted(parts[k]))])

\* raw is one pair of quotes around a text that holds no quote
WhollyQuoted(raw) ==
    /\ Unquoted(raw) # raw
    /\ \A k \in 1..Len(Unquoted(raw)) : Unquoted(raw)[k] \notin Quotes

\* C9: for an array flag of subType string, a value wrapped as a whole in
\* one pair of quotes is unquoted and then split on every comma: one element
\* per part, in order, the whitespace inside a part kept.  (Stated for every
\* call that reaches the value, and for a new instance the call returns.)
C9_QuotedWholeThenSplit ==
    \A i \in 1..Len(config) :
        ( /\ Called
          /\ config[i].type = "array" /\ config[i].subType = "string"
          /\ config[i].regex.t = "undefined"
          /\ IsValueLine(line, config[i])
          /\ WhollyQuoted(TextOf(line, config[i])) )
        => LET parts == CommaParts(Unquoted(TextOf(line, config[i])))
           IN  /\ (Fresh => result.kind = "values")
               /\ ~Truthy(Get(before, config[i].name)) =>
                    Get(values, config[i].name)
                        = Arr([k \in 1..Len(parts) |-> Str(parts[k])])

\* C9's case: a quoted value with commas and a space became four elements
C9_Witness ==
    /\ result.kind = "values"
    /\ \E i \in 1..Len(config) :
        /\ IsValueLine(line, config[i]) /\ WhollyQuoted(TextOf(line, config[i]))
        /\ config[i].type = "array"
        /\ Get(values, config[i].name).t = "array"
        /\ Len(Get(values, config[i].name).a) = 4
        /\ \E k \in 1..4 : \E j \in 1..Len(Get(values, config[i].name).a[k].s) :
               Get(values, config[i].name).a[k].s[j] = " "

\* l is a cluster -c1c2...cn whose characters are the aliases of n distinct
\* boolean flags
IsBooleanCluster(l) ==
    /\ Len(l) >= 2 /\ l[1] = "-"
    /\ \A k \in 2..Len(l) :
        /\ l[k] \in WordChars
        /\ <<l[k]>> \in DOMAIN shortFlags
        /\ Entry(config, shortFlags[<<l[k]>>]).type = "boolean"
    /\ \A j, k \in 2..Len(l) : j # k => l[j] # l[k]

\* C10: a short-flag cluster is tokenized into one short-flag token per
\* character, in order, and when each character is the alias of a distinct
\* boolean flag parse returns a mapping in which each of those flags is true.
C10_ClusterSetsEach ==
    (Called /\ Fresh /\ IsBooleanCluster(line)) =>
        /\ splitArgs(line) = [k \in 1..(Len(line) - 1) |-> Token(TRUE, TRUE, <<line[k + 1]>>)]
        /\ result.kind = "values"
        /\ \A k \in 2..Len(line) : Get(values, shortFlags[<<line[k]>>]) = Bool(TRUE)

\* --- the leftover ------------------------------------------------------
\* the last token of sp is bare and no flag takes it as its value: it stands
\* alone, or after a bare token, or after a flag that takes no value
TrailingBare(sp) ==
    /\ sp # <<>>
    /\ ~sp[Len(sp)].isFlag
    /\ \/ Len(sp) = 1
       \/ ~sp[Len(sp) - 1].isFlag
       \/ /\ HasFlag(config, Resolved(sp[Len(sp) - 1]))
          /\ Entry(config, Resolved(sp[Len(sp) - 1])).type = "boolean"

NoDefaults == \A i \in 1..Len(config) : config[i].default.t = "undefined"
NoRequired == \A i \in 1..Len(config) : ~Truthy(config[i].required)

\* C11: a bare token that is the last token of the line and is not consumed
\* as the value of a flag is stored under __append__ in the mapping parse
\* returns; when the line is that single bare token and the schema declares
\* no defaults, the mapping holds the leftover key and nothing else (and
\* parse does return one unless the schema requires a flag).
C11_TrailingBareIsLeftover ==
    (Called /\ Fresh /\ TrailingBare(splitArgs(line))) =>
        LET sp == splitArgs(line)
        IN  /\ result.kind = "values" =>
                 Get(values, APPEND) = Str(sp[Len(sp)].value)
            /\ (Len(sp) = 1 /\ NoDefaults) =>
                 /\ NoRequired => result.kind = "values"
                 /\ result.kind = "values" =>
                      values = (APPEND :> Str(sp[1].value))

\* --- numeric bounds ---------------------------------------------------
\* n meets the bounds that flag f defines
InBounds(f, n) ==
    /\ f.min.t = "number" => f.min.n <= n
    /\ f.max.t = "number" => n <= f.max.n

Numeric == {"integer", "number"}
RangeErrors == {"OutOfRange", "OutOfRangeMin", "OutOfRangeMax"}

\* C12: for every integer or number flag, and every element of an array of
\* such a subType, each value parse returns meets the bounds the schema
\* defines (0 and negative bounds included), and a supplied integer literal
\* outside a defined bound makes parse fail with an out-of-range error.
C12_BoundsHold ==
    \A i \in 1..Len(config) :
        LET f == config[i]
            v == Get(values, f.name)
        IN  /\ (Called /\ result.kind = "values" /\ v.t = "number"
                /\ f.type \in Numeric) => InBounds(f, v.n)
            /\ (Called /\ result.kind = "values" /\ v.t = "array"
                /\ f.type = "array" /\ f.subType \in Numeric) =>
                    \A k \in 1..Len(v.a) : InBounds(f, v.a[k].n)
            /\ (Called /\ Fresh /\ f.type \in Numeric /\ IsValueLine(line, f)
                /\ IntegerLiteral(TextOf(line, f))
                /\ ~InBounds(f, 10 * LiteralValue(TextOf(line, f)))) =>
                    (result.kind = "error" /\ result.err \in RangeErrors)

\* --- the constructor --------------------------------------------------
Defined(v) == v.t # "undefined"

\* C13: required and default exclude each other: the constructor throws for
\* every flag written with required and a defined default (0, false and ''
\* included), so no flag of a constructed parser has both.
C13_RequiredExcludesDefault ==
    /\ \A i \in 1..Len(schema) :
         (Truthy(schema[i].required) /\ Defined(schema[i].default)) => thrown # ""
    /\ thrown = "" =>
         \A i \in 1..Len(config) :
            ~(Truthy(config[i].required) /\ Defined(config[i].default))

\* C14: enum excludes the typed attributes: the constructor throws for every
\* flag written with enum and any of type, subType, regex, min, max, whatever
\* the attribute's value (min: 0 included), so no flag of a constructed
\* parser has an enum beside a bound or a regex.
C14_EnumExcludesTyped ==
    /\ \A i \in 1..Len(schema) :
         ( /\ Truthy(schema[i].enum)
           /\ \/ schema[i].type # "" \/ schema[i].subType # ""
              \/ Defined(schema[i].regex)
              \/ Defined(schema[i].min) \/ Defined(schema[i].max) )
         => thrown # ""
    /\ thrown = "" =>
         \A i \in 1..Len(config) :
            Truthy(config[i].enum) =>
                ~(Defined(config[i].regex) \/ Defined(config[i].min)
                  \/ Defined(config[i].max))

\* two flags of raw declare the same alias
SameShort(raw) ==
    \E i, j \in 1..Len(raw) :
        i # j /\ Truthy(raw[i].short) /\ raw[i].short = raw[j].short

\* C15: two flags of one schema that declare the same short alias make the
\* constructor throw; in a constructed parser no two flags share an alias,
\* and this.shortFlags maps each declared alias to the one flag declaring it.
C15_AliasesUnique ==
    /\ SameShort(schema) => thrown # ""
    /\ thrown = "" =>
         /\ ~SameShort(config)
         /\ DOMAIN shortFlags =
              {config[i].short.s : i \in {j \in 1..Len(config) : Truthy(config[j].short)}}
         /\ \A i \in 1..Len(config) :
              Truthy(config[i].short) => shortFlags[config[i].short.s] = config[i].name

\* C15's case: the second of two flags with the alias 'a' made the
\* constructor throw
C15_Witness == SameShort(schema) /\ thrown = "DuplicateShort"

\* C16: constructing a parser a second time with the same schema object
\* succeeds and the two parsers give the same help rows, enum flags included.
\* (A step that ends in a constructor's throw or in an instance on which
\* parse was not yet called is a constructor call.)
C16_SecondConstruction ==
    [][(thrown' # "" \/ result'.kind = "none") =>
          (thrown' = "" /\ helpInfos(config') = helpInfos(config))]_vars

\* --- a flag without its value --------------------------------------------
\* the scan of a new instance reaches token i of sp with every token before
\* it bound: i is the first token, or the tokens before it are flags each
\* followed by its value, and bind without error
Reaches(sp, i) ==
    \/ i = 1
    \/ /\ i >= 3 /\ ~sp[i - 1].isFlag /\ sp[i - 2].isFlag
       /\ BindFrom(config, shortFlags, EmptyObject, SubSeq(sp, 1, i - 1), 1, FALSE).ok

\* token i of sp names the known flag k, which no token before it names, and
\* no value follows it
LacksValue(sp, i, k) ==
    /\ sp[i].isFlag /\ Resolved(sp[i]) = k
    /\ \A j \in 1..(i - 1) : ~(sp[j].isFlag /\ Resolved(sp[j]) = k)
    /\ (i = Len(sp) \/ sp[i + 1].isFlag)

\* C17: a non-boolean flag without a default whose next token is absent or
\* is itself a flag makes parse fail with MissingValue naming the flag; a
\* boolean flag never raises MissingValue.
C17_MissingValue ==
    LET sp == splitArgs(line)
    IN  /\ \A c \in 1..Len(config) : \A i \in 1..Len(sp) :
             ( /\ Called /\ Fresh /\ ~HelpRequested(sp)
               /\ config[c].type # "boolean" /\ ~Defined(config[c].default)
               /\ LacksValue(sp, i, config[c].name)
               /\ Reaches(sp, i) )
             => ( /\ result.kind = "error"
                  /\ result.err = "MissingValue"
                  /\ result.flag = config[c].name )
        /\ (Called /\ result.err = "MissingValue") =>
             /\ HasFlag(config, result.flag)
             /\ Entry(config, result.flag).type # "boolean"

\* --- flag names -------------------------------------------------------
\* C18: for every flag name k the constructor accepts, the long flag written
\* as '--' and k's display name (printName, the kebab-case form of k) is
\* taken back to k and resolves to the flag k: camelCase(printName) = k, and
\* the line `--<printName> <value>`, the value one bare token, is bound to k,
\* never an unknown flag.
C18_NameRoundTrip ==
    thrown = "" =>
        \A i \in 1..Len(config) :
            /\ camelCase(config[i].printName) = config[i].name
            /\ (Called /\ Fresh /\ IsValueLine(line, config[i])) =>
                 /\ result.err # "UnknownFlag"
                 /\ result.kind = "values" => Defined(Get(values, config[i].name))

\* --- validators -------------------------------------------------------
\* C19: for a flag with a validator the stored value is decided by what the
\* validator does with the coerced value: a defined return value replaces
\* it, no return value keeps it, a throw makes parse fail with
\* ValidatorFailed; the validator is not called on a value that failed its
\* coercion, so the failure reported is the coercion's.  (Stated for integer
\* flags given one bare token; the text of the message is not modelled.)
C19_ValidatorDecides ==
    \A i \in 1..Len(config) :
        ( /\ Called /\ Fresh
          /\ Truthy(config[i].validator) /\ config[i].type = "integer"
          /\ ~Defined(config[i].min) /\ ~Defined(config[i].max)
          /\ IsValueLine(line, config[i]) )
        => LET N == TextOf(line, config[i])
               coerced == Whole(LiteralValue(N))
               c == CallValidator(config[i].validator, coerced)
           IN  IF ~IntegerLiteral(N)
               THEN result.kind = "error" /\ result.err # "ValidatorFailed"
               ELSE IF c.threw
               THEN /\ result.kind = "error" /\ result.err = "ValidatorFailed"
                    /\ result.flag = config[i].name
               ELSE /\ result.kind = "values"
                    /\ Get(values, config[i].name)
                         = IF Defined(c.ret) THEN c.ret ELSE coerced

NamesBoolean(tok) ==
    /\ tok.isFlag
    /\ HasFlag(config, Resolved(tok))
    /\ Entry(config, Resolved(tok)).type = "boolean"

\* token i of sp is bare and no flag takes it as its value: it is the first
\* token, or follows a boolean flag, or follows the value of a flag
Unbound(sp, i) ==
    /\ ~sp[i].isFlag
    /\ \/ i = 1
       \/ NamesBoolean(sp[i - 1])
       \/ /\ i >= 3 /\ ~sp[i - 1].isFlag
          /\ sp[i - 2].isFlag /\ ~NamesBoolean(sp[i - 2])

\* the tokens before token i of sp bind without error on a new instance
PrefixBinds(sp, i) ==
    BindFrom(config, shortFlags, EmptyObject, SubSeq(sp, 1, i - 1), 1, FALSE).ok

\* C21: a bare token that no preceding flag takes as its value and that is
\* followed by at least one more token makes parse fail with UnhandledValue
\* naming it; a line of two or more bare tokens and no flag always throws.
C21_UnboundBareThrows ==
    LET sp == splitArgs(line)
    IN  \A i \in 1..(Len(sp) - 1) :
            ( /\ Called /\ Fresh /\ ~HelpRequested(sp)
              /\ Unbound(sp, i) /\ PrefixBinds(sp, i) )
            => ( /\ result.kind = "error"
                 /\ result.err = "UnhandledValue"
                 /\ result.flag = sp[i].value )

\* --- flags the line leaves untouched ----------------------------------
\* C22: MissingRequired is raised only for a flag the line does not touch: a
\* required flag that the line assigns a valid value, also one that is
\* coerced or validated to 0 or '', never makes parse fail with
\* MissingRequired.
C22_RequiredOnlyIfUntouched ==
    (Called /\ result.kind = "error" /\ result.err = "MissingRequired")
        => ~Names(line, result.flag)

\* C23: a default is applied only to a flag the line does not touch: when
\* the line `--<name> <value>` assigns a flag that has a default, the mapping
\* holds the coerced input value, also when that value is 0 or ''.
C23_DefaultOnlyIfUntouched ==
    \A i \in 1..Len(config) :
        ( /\ Called /\ Fresh /\ NoRequired
          /\ Defined(config[i].default)
          /\ IsValueLine(line, config[i])
          /\ handleValue(config[i], Str(TextOf(line, config[i])), config[i].name).ok )
        => ( /\ result.kind = "values"
             /\ Get(values, config[i].name)
                  = handleValue(config[i], Str(TextOf(line, config[i])),
                                config[i].name).v )

\* --- single dash ------------------------------------------------------
\* l is a single dash followed by two or more name characters, the first a
\* word character, and nothing else: `-name`, `-abc`
SingleDashName(l) ==
    /\ Len(l) >= 3
    /\ l[1] = "-" /\ l[2] \in WordChars
    /\ \A k \in 3..Len(l) : l[k] \in NameChars

\* C24 as written: a single dash followed by more than one character is
\* tokenized as one long-flag token holding the whole name, the token that
\* the same name after two dashes produces.
C24_SingleDashIsLong ==
    (Called /\ SingleDashName(line))
        => ( /\ splitArgs(line) = <<Token(TRUE, FALSE, Tail(line))>>
             /\ splitArgs(line) = splitArgs(<<"-">> \o line) )

\* C24 amended: a single dash followed by more than one character is
\* tokenized as a cluster, one short-flag token per character of the name,
\* in order; only two dashes produce a long-flag token.
C24_SingleDashIsCluster ==
    (Called /\ SingleDashName(line))
        => ( /\ splitArgs(line)
                  = [k \in 1..(Len(line) - 1) |-> Token(TRUE, TRUE, <<line[k + 1]>>)]
             /\ splitArgs(<<"-">> \o line) = <<Token(TRUE, FALSE, Tail(line))>> )

\* parse was called with `-name`, which the tokenizer split into n, a, m, e
C24_Witness ==
    /\ Called
    /\ line = <<"-", "n", "a", "m", "e">>
    /\ Len(splitArgs(line)) = 4
    /\ \A k \in 1..4 : splitArgs(line)[k].isShort
    /\ result.kind = "error" /\ result.err = "MissingValue"

\* --- the token after a boolean flag -----------------------------------
\* token i of sp is bare and directly follows a flag token naming a boolean
\* flag, and the tokens up to that flag bind without error on a new instance
AfterBoolean(sp, i) ==
    /\ i >= 2 /\ ~sp[i].isFlag
    /\ NamesBoolean(sp[i - 1])
    /\ PrefixBinds(sp, i)

\* C25: a boolean flag does not consume the token that follows it: a bare
\* token directly after a boolean flag is the leftover when it is the last
\* token (the mapping returned holds it under __append__), makes parse fail
\* with UnhandledValue when more tokens follow, and is never skipped.
C25_BooleanTakesNoValue ==
    LET sp == splitArgs(line)
    IN  \A i \in 2..Len(sp) :
            (Called /\ Fresh /\ ~HelpRequested(sp) /\ AfterBoolean(sp, i))
            => IF i = Len(sp)
               THEN /\ NoRequired => result.kind = "values"
                    /\ result.kind = "values"
                         => Get(values, APPEND) = Str(sp[i].value)
               ELSE /\ result.kind = "error"
                    /\ result.err = "UnhandledValue"
                    /\ result.flag = sp[i].value

\* --- a flag with a default and no value -------------------------------
\* token i of sp names, for the first time on the line, the non-boolean flag
\* k that has a default and is not required, and no value follows it
DefaultedLacksValue(sp, i, k) ==
    /\ LacksValue(sp, i, k)
    /\ HasFlag(config, k)
    /\ Entry(config, k).type # "boolean"
    /\ Defined(Entry(config, k).default)
    /\ ~Truthy(Entry(config, k).required)

\* C26: a non-boolean flag with a default that appears on the line without a
\* value (it is the last token or the next token is a flag) gets its default
\* run through the coercion pipeline: parse raises no error naming the flag
\* when the default passes, and a mapping returned holds the coerced default;
\* the name of the following flag is never used as the flag's value.
C26_DefaultWhenNoValue ==
    LET sp == splitArgs(line)
    IN  \A i \in 1..Len(sp) : \A j \in 1..Len(config) :
            ( /\ Called /\ Fresh /\ ~HelpRequested(sp)
              /\ DefaultedLacksValue(sp, i, config[j].name)
              /\ handleValue(config[j], Undef, config[j].name).ok )
            => ( /\ ~(result.kind = "error" /\ result.flag = config[j].name)
                 /\ result.kind = "values"
                      => Get(values, config[j].name)
                           = handleValue(config[j], Undef, config[j].name).v )

\* --- the order of failures --------------------------------------------
\* the first n tokens of sp (all of sp when it has fewer)
Upto(sp, n) == SubSeq(sp, 1, IF n <= Len(sp) THEN n ELSE Len(sp))

\* what the call would have done had the line ended after its n-th token
Truncated(sp, n) == parseTokens(config, shortFlags, before, Upto(sp, n))

\* key k of this.values is as it was before the call, or some flag token
\* before position i of sp names it
TouchedBefore(sp, i, k) ==
    \/ k \in DOMAIN before /\ values[k] = before[k]
    \/ \E j \in 1..(i - 1) : sp[j].isFlag /\ Resolved(sp[j]) = k

\* C27: the first failure wins, in token order: when parse throws in the
\* callback of the token at position i, every token before i was processed
\* without error, no key of this.values was assigned by a token after i, and
\* the call did what it does for the line cut after token i+1 (no token
\* after i+1 plays a part); an error thrown outside the scan, MissingRequired
\* or the coercion of a default, comes only after every token was bound
\* without error.
C27_FirstFailureWins ==
    LET sp == splitArgs(line)
    IN  (Called /\ result.kind = "error") =>
          /\ result.at \in 0..Len(sp)
          /\ result.err = "MissingRequired" => result.at = 0
          /\ result.at = 0 =>
               BindFrom(config, shortFlags, before, sp, 1, FALSE).ok
          /\ result.at > 0 =>
               /\ \A j \in 1..(result.at - 1) :
                    Truncated(sp, j + 1).at \notin 1..j
               /\ \A k \in DOMAIN values : TouchedBefore(sp, result.at, k)
               /\ Truncated(sp, result.at + 1).kind = "error"
               /\ Truncated(sp, result.at + 1).err = result.err
               /\ Truncated(sp, result.at + 1).flag = result.flag
               /\ Truncated(sp, result.at + 1).at = result.at
               /\ Truncated(sp, result.at + 1).values = values

\* parse threw UnknownFlag for the third of six tokens, after it had assigned
\* the flag of the first two; the fifth token names an unknown flag as well
C27_Witness ==
    /\ Called /\ Fresh
    /\ Len(splitArgs(line)) = 6
    /\ result.kind = "error" /\ result.err = "UnknownFlag" /\ result.at = 3
    /\ result.flag = splitArgs(line)[3].value
    /\ DOMAIN values = {Resolved(splitArgs(line)[1])}
    /\ splitArgs(line)[5].isFlag
    /\ ~HasFlag(config, Resolved(splitArgs(line)[5]))

\* --- after a throw ----------------------------------------------------
\* what the instance, as it is now, does with line l is what a newly
\* constructed parser with the same schema does with it
AsFresh(l) ==
    /\ parse(config, shortFlags, values, l).kind = FreshParse(l).kind
    /\ parse(config, shortFlags, values, l).err = FreshParse(l).err
    /\ parse(config, shortFlags, values, l).flag = FreshParse(l).flag
    /\ parse(config, shortFlags, values, l).values = FreshParse(l).values

\* C28: a parse call that throws leaves no partial result behind: after a
\* throwing call on a new instance this.values holds none of the values
\* assigned to the flags before the failing token, and a following parse(L)
\* returns what a newly constructed parser with the same schema returns.
C28_ThrowLeavesNothing ==
    (Called /\ Fresh /\ result.kind = "error")
        => ( /\ values = EmptyObject
             /\ \A l \in InputLines(schema) : AsFresh(l) )

\* --- the help text ----------------------------------------------------
\* the rows are in ascending order of display name
SortedRows(rows) ==
    \A i, j \in 1..Len(rows) :
        i < j => ~StrLess(rows[j].printName, rows[i].printName)

\* C29: getHelpString lists one row per flag of the schema, the implicit
\* help flag included, and the rows are sorted by display name, whatever the
\* order in which the schema declares the flags.
C29_HelpRowsSorted ==
    thrown = "" =>
        /\ Len(getHelpString(config)) = Len(config)
        /\ \A i \in 1..Len(config) :
             \E r \in 1..Len(config) :
                 getHelpString(config)[r].printName = config[i].printName
        /\ \E i \in 1..Len(config) : config[i].printName = HELP
        /\ SortedRows(getHelpString(config))

\* --- duplicates -------------------------------------------------------
\* C30: DuplicateFlag is raised only when the flag that the failing token
\* resolves to was already named by a flag token earlier in the same line: a
\* line that assigns two different flags once each never fails with
\* DuplicateFlag, also when the alias of one is spelled like the name of
\* the other.
C30_DuplicateOnlyIfAssigned ==
    LET sp == splitArgs(line)
    IN  ( /\ Called /\ Fresh
          /\ result.kind = "error" /\ result.err = "DuplicateFlag" )
        => \E j \in 1..(result.at - 1) :
               /\ sp[j].isFlag
               /\ Resolved(sp[j]) = Resolved(sp[result.at])

=============================================================================
